---- MODULE Spec2Model ----
(***************************************************************************)
(* Rate-limited model selection and failover controller                    *)
(* (robots_backend/rate_limiter.py, GeminiRateLimiter) together with the   *)
(* request handlers that drive it (robots_backend/main.py chat_with_agent, *)
(* the streaming handlers of the agents, the /rate-limit-stats endpoint).  *)
(*                                                                         *)
(* Time.  The code stores wall-clock timestamps (time.time()) and reads    *)
(* them in two ways only: "timestamp > now - 60" and "date(now) >          *)
(* date(last_day_reset)".  The model stores, for every timestamp, what     *)
(* these comparisons read: for a record's timestamp its age in seconds     *)
(* (now - timestamp, which stops growing at AgeCap, beyond the 60 second   *)
(* window), and for last_day_reset the number of calendar-day boundaries   *)
(* passed since it (which stops growing at 1: the code only asks whether   *)
(* the date has advanced).  Tick lets seconds pass, Midnight lets the      *)
(* calendar date advance; both age every stored timestamp, in memory and   *)
(* in the file.                                                            *)
(***************************************************************************)
EXTENDS Integers, Sequences, FiniteSets, TLC

\* ------------------------------------------------------------------ bounds

\* Number of LLM invocations (recorded outcomes) in one run of Spec.
MaxCalls == 2
\* Number of LLM invocations in one run of SpecRestart.
MaxCallsRestart == 1
\* Number of process restarts in one run of SpecRestart.
MaxRestarts == 1
\* Number of times the calendar date advances in one run.
MaxDays == 1
\* Number of LLM invocations in one run of SpecBurst.
MaxBurst == 28
\* Number of LLM invocations in one run of SpecRace.
MaxCallsRace == 3
\* Age (seconds) at which a stored timestamp stops ageing; beyond the window.
AgeCap == 61
\* Number of LLM invocations in one run of SpecWindow.
MaxCallsWindow == 2

\* Number of streaming requests that end in one run of SpecStream.
MaxCallsStream == 2

\* Concurrent request handlers (coroutines of the one backend process).
Handlers == {"h1", "h2"}
HandlerRank(h) == CHOOSE i \in 1..3 : h = <<"h1", "h2", "h3">>[i]
\* Seconds that pass in one Tick.
TickSteps == {35}
\* Age (seconds) of the records a usage file of an earlier process holds.
StartupAge == 35
\* Token counts a completed request reports (total_tokens of the response).
TokenChoices == {1000, 224000}
\* The longest message of SpecEstimate, in characters.
MaxTextLen == 1000
\* Tokens of every request of SpecBurst and SpecRace.
BurstTokens == 1000
\* Token estimates of an inbound message (estimate_tokens(message)).
EstChoices == {1000}

\* ------------------------------------------------------- program constants

\* the 60 second sliding window of requests_this_minute / tokens_this_minute
WindowSeconds == 60
\* usage.request_records[-20:]
MaxStoredRecords == 20
\* self.delay_when_approaching_limit = 35
delay_when_approaching_limit == 35
\* self.approach_threshold = 0.9, as the fraction ThresholdNum / ThresholdDen
ThresholdNum == 9
ThresholdDen == 10

NoModel == "None"

model_priority ==
    << "gemini-2.5-flash-lite-preview-06-17",
       "gemini-2.5-flash-lite-preview-09-2025",
       "gemini-2.0-flash-lite",
       "gemini-2.0-flash-lite-001",
       "gemini-2.5-flash-lite",
       "gemini-2.5-flash" >>

\* The keys of model_limits, in the dict's (insertion) order.
model_order ==
    << "gemini-2.5-flash-lite-preview-06-17",
       "gemini-2.5-flash-lite-preview-09-2025",
       "gemini-2.0-flash-lite",
       "gemini-2.0-flash-lite-001",
       "gemini-2.5-flash-lite",
       "gemini-2.5-flash" >>

Models == { model_order[i] : i \in DOMAIN model_order }

ModelLimits(rpm, tpm, rpd) ==
    [requests_per_minute |-> rpm, tokens_per_minute |-> tpm, requests_per_day |-> rpd]

model_limits ==
    ( "gemini-2.5-flash-lite-preview-06-17"   :> ModelLimits(15, 250000, 1000) ) @@
    ( "gemini-2.5-flash-lite-preview-09-2025" :> ModelLimits(15, 250000, 1000) ) @@
    ( "gemini-2.0-flash-lite"                 :> ModelLimits(30, 1000000, 200) ) @@
    ( "gemini-2.0-flash-lite-001"             :> ModelLimits(30, 1000000, 200) ) @@
    ( "gemini-2.5-flash-lite"                 :> ModelLimits(10, 250000, 1000) ) @@
    ( "gemini-2.5-flash"                      :> ModelLimits(10, 250000, 250) )

\* self.model_priority.index(model)
PriorityIndex(m) == CHOOSE i \in DOMAIN model_priority : model_priority[i] = m

\* ------------------------------------------------------------ usage ledger

\* time.time() as a stored last_day_reset: on today's date
Now == 0

\* ModelUsage(): requests_today = 0, last_day_reset = time.time(), no records
ModelUsage == [requests_today |-> 0, last_day_reset |-> Now, request_records |-> << >>]

\* RequestRecord(timestamp = time.time(), tokens = tokens)
RequestRecord(tokens) == [age |-> 0, tokens |-> tokens]

\* InWindow keeping a record that is exactly 60 seconds old
InWindowInclusive(record) == record.age <= WindowSeconds

\* record.timestamp > current_time - 60
InWindow(record) == record.age < WindowSeconds

RECURSIVE SumTokens(_)
SumTokens(records) ==
    IF records = << >> THEN 0
    ELSE (IF InWindow(Head(records)) THEN Head(records).tokens ELSE 0)
         + SumTokens(Tail(records))

\* ModelUsage.requests_this_minute
requests_this_minute(u) ==
    Cardinality({ i \in DOMAIN u.request_records : InWindow(u.request_records[i]) })

\* ModelUsage.tokens_this_minute
tokens_this_minute(u) == SumTokens(u.request_records)

\* LastN keeping the first n elements, seq[:n]
FirstN(seq, n) ==
    IF Len(seq) <= n THEN seq ELSE SubSeq(seq, 1, n)

\* seq[-n:]
LastN(seq, n) ==
    IF Len(seq) <= n THEN seq ELSE SubSeq(seq, Len(seq) - n + 1, Len(seq))

\* _cleanup_old_records(model_name)
cleanup_old_records(us, m) ==
    [us EXCEPT ![m].request_records = SelectSeq(@, InWindow)]

\* dt.now().date() > dt.fromtimestamp(last_day_reset).date()
NewDay(last_day_reset) == last_day_reset > 0

\* reset_daily_counter_if_needed that leaves last_day_reset as it was
reset_daily_counter_keeps_date(us, m) ==
    IF NewDay(us[m].last_day_reset)
    THEN [us EXCEPT ![m].requests_today = 0]
    ELSE us

\* _reset_daily_counter_if_needed(model_name)
reset_daily_counter_if_needed(us, m) ==
    IF NewDay(us[m].last_day_reset)
    THEN [us EXCEPT ![m].requests_today = 0, ![m].last_day_reset = Now]
    ELSE us

\* AtThreshold comparing with > instead of >=
AtThresholdStrict(value, limit) == ThresholdDen * value > ThresholdNum * limit

\* limit * self.approach_threshold <= value
AtThreshold(value, limit) == ThresholdDen * value >= ThresholdNum * limit

\* _is_approaching_limit_no_reset(model_name, estimated_tokens): the reason of
\* the first condition that holds, or "" when none does
is_approaching_limit_no_reset(us, m, estimated_tokens) ==
    LET limits == model_limits[m]
        usage  == us[m]
    IN  IF AtThreshold(requests_this_minute(usage), limits.requests_per_minute)
        THEN "requests per minute"
        ELSE IF AtThreshold(tokens_this_minute(usage) + estimated_tokens,
                            limits.tokens_per_minute)
        THEN "tokens per minute"
        ELSE IF AtThreshold(usage.requests_today, limits.requests_per_day)
        THEN "requests per day"
        ELSE ""

\* _has_exceeded_daily_limit_no_reset(model_name)
has_exceeded_daily_limit_no_reset(us, m) ==
    us[m].requests_today >= model_limits[m].requests_per_day

\* has_exceeded_daily_limit comparing with > instead of >=
has_exceeded_daily_limit_strict(us, m) ==
    LET after == reset_daily_counter_if_needed(us, m)
    IN  [usage |-> after,
         exceeded |-> after[m].requests_today > model_limits[m].requests_per_day]

\* _has_exceeded_daily_limit(model_name): the ledger after the reset it
\* applies, and its answer
has_exceeded_daily_limit(us, m) ==
    LET after == reset_daily_counter_if_needed(us, m)
    IN  [usage |-> after, exceeded |-> has_exceeded_daily_limit_no_reset(after, m)]

RECURSIVE NextAvailableFrom(_, _)
NextAvailableFrom(us, i) ==
    IF i > Len(model_priority)
    THEN [usage |-> us, model |-> NoModel]
    ELSE LET r == has_exceeded_daily_limit(us, model_priority[i])
         IN  IF ~r.exceeded
             THEN [usage |-> r.usage, model |-> model_priority[i]]
             ELSE NextAvailableFrom(r.usage, i + 1)

\* a search that starts again from the top of the priority list
FirstCandidateFromTop(current_index) == 1

\* range(current_index + 1, len(self.model_priority)), 1-based
FirstCandidate(current_index) == current_index + 1

\* _get_next_available_model(): the ledger after the resets the search
\* applies, and the model found (NoModel for None)
get_next_available_model(us, cur) ==
    NextAvailableFrom(us, FirstCandidate(PriorityIndex(cur)))

RECURSIVE AllExhaustedFrom(_, _)
AllExhaustedFrom(us, i) ==
    IF i > Len(model_order)
    THEN [usage |-> us, all |-> TRUE]
    ELSE LET r == has_exceeded_daily_limit(us, model_order[i])
         IN  IF ~r.exceeded
             THEN [usage |-> r.usage, all |-> FALSE]
             ELSE AllExhaustedFrom(r.usage, i + 1)

\* are_all_models_exhausted answering for the first model only
are_all_models_exhausted_first(us) ==
    LET r == has_exceeded_daily_limit(us, model_order[1])
    IN  [usage |-> r.usage, all |-> r.exceeded]

\* _are_all_models_exhausted(): the ledger after the resets it applies, and
\* its answer
are_all_models_exhausted(us) == AllExhaustedFrom(us, 1)

\* RecordedUsage taking requests_today from the number of stored records
RecordedUsageCountsRecords(us, m, tokens_used) ==
    LET u1 == reset_daily_counter_if_needed(cleanup_old_records(us, m), m)
        records == LastN(Append(u1[m].request_records, RequestRecord(tokens_used)),
                         MaxStoredRecords)
    IN  [u1 EXCEPT ![m].request_records = records,
                   ![m].requests_today = Len(records)]

\* record_request up to the save: cleanup, daily reset, append, increment,
\* keep the last 20
RecordedUsage(us, m, tokens_used) ==
    LET u1 == reset_daily_counter_if_needed(cleanup_old_records(us, m), m)
    IN  [u1 EXCEPT ![m].request_records =
                        LastN(Append(@, RequestRecord(tokens_used)), MaxStoredRecords),
                   ![m].requests_today = @ + 1]

\* ForcedCount one short of the cap
ForcedCountShort(m) == model_limits[m].requests_per_day - 1

\* usage.requests_today = limits.requests_per_day
ForcedCount(m) == model_limits[m].requests_per_day

\* A timestamp as the usage file holds it. enc is how the value is written:
\* "iso" an ISO-8601 string and "epoch" an epoch number, both for the instant
\* at (seconds before now for a record, the day flag for last_day_reset);
\* "text" a string that is no ISO-8601 time, "null" a JSON null, list or
\* object, "bool" a JSON true, "huge" a number outside the range of time_t.
Stored(enc, at) == [enc |-> enc, at |-> at]

\* dt.fromtimestamp(record.timestamp).isoformat() as _parse_timestamp reads
\* it back with dt.fromisoformat(...).timestamp(): the string holds the local
\* wall-clock time without UTC offset, and a wall-clock time that a
\* daylight-saving fall-back repeats is read as its first pass. A timestamp
\* taken in the second pass (repeated_hour) comes back 3600 seconds earlier,
\* which is beyond AgeCap; any other timestamp keeps its age in seconds.
isoformat(age, repeated_hour) ==
    Stored("iso", IF repeated_hour THEN AgeCap ELSE age)

\* _save_usage_data(): what the file holds after a save of ledger us;
\* repeated_hour when the last AgeCap seconds before the save lie in the
\* second pass of a repeated wall-clock hour
save_usage_data(us, repeated_hour) ==
    [exists |-> TRUE, readable |-> TRUE,
     data   |-> [m \in Models |->
                    LET recent_records == LastN(us[m].request_records, MaxStoredRecords)
                    IN  [requests_today  |-> us[m].requests_today,
                         last_day_reset  |-> Stored("iso", us[m].last_day_reset),
                         request_records |->
                            [i \in DOMAIN recent_records |->
                                [timestamp |-> isoformat(recent_records[i].age,
                                                         repeated_hour),
                                 tokens    |-> recent_records[i].tokens]]]]]

\* _save_usage_data() outside a repeated hour
SavedData(us) == save_usage_data(us, FALSE)

\* no rate_limiter_usage.json: os.path.exists(usage_file) is false
NoFile == [exists |-> FALSE, readable |-> FALSE, data |-> [m \in Models |-> ModelUsage]]

\* a rate_limiter_usage.json that json.load cannot read: open(usage_file, 'w')
\* emptied it and the write failed before the data was complete
Unreadable == [exists |-> TRUE, readable |-> FALSE, data |-> [m \in Models |-> ModelUsage]]

\* how a write of the usage file can end: the data is written, open() fails
\* and the file stays as it was, or the write fails after open() emptied it
DiskOutcomes == {"written", "unwritable", "truncated"}

\* the usage file after a _save_usage_data() that had saved to write
Written(f, saved, disk) ==
    CASE disk = "written"    -> saved
      [] disk = "unwritable" -> f
      [] disk = "truncated"  -> Unreadable

\* _parse_timestamp(timestamp_value): an int or float is taken as an epoch
\* number (a JSON true is the int 1, one second after the epoch start), a
\* string goes through dt.fromisoformat(...).timestamp() with time.time() on
\* ValueError, anything else gives time.time(). epoch_start is 1970-01-01 on
\* the scale of the caller.
parse_timestamp(timestamp_value, epoch_start) ==
    CASE timestamp_value.enc \in {"epoch", "huge"} -> timestamp_value.at
      [] timestamp_value.enc = "bool"               -> epoch_start
      [] timestamp_value.enc = "iso"                -> timestamp_value.at
      [] OTHER                                      -> Now

\* dt.fromtimestamp(last_day_reset) raises (OverflowError, OSError or
\* ValueError) on a number outside the range of time_t
fromtimestamp_raises(timestamp_value) == timestamp_value.enc = "huge"

\* one model's entry of _load_usage_data()
LoadedUsage(usage_data) ==
    LET last_day_reset == parse_timestamp(usage_data.last_day_reset, 1)
        stale == NewDay(last_day_reset)
        stored_records == usage_data.request_records
        parsed == [i \in DOMAIN stored_records |->
                      [age    |-> parse_timestamp(stored_records[i].timestamp, AgeCap),
                       tokens |-> stored_records[i].tokens]]
    IN  [requests_today  |-> IF stale THEN 0 ELSE usage_data.requests_today,
         last_day_reset  |-> IF stale THEN Now ELSE last_day_reset,
         request_records |-> SelectSeq(parsed, InWindow)]

\* the number of entries of the file (in the order of the file, which is the
\* order of model_limits) that _load_usage_data takes before an exception
\* ends its loop
LoadedEntries(f) ==
    LET raising == { i \in DOMAIN model_order :
                       fromtimestamp_raises(f.data[model_order[i]].last_day_reset) }
    IN  IF raising = {} THEN Len(model_order)
        ELSE (CHOOSE i \in raising : \A j \in raising : i <= j) - 1

\* _load_usage_data reads the file and runs to its save
LoadsCompletely(f) ==
    f.exists /\ f.readable /\ LoadedEntries(f) = Len(model_order)

\* self.usage after __init__: a fresh ledger, replaced by the file's entries
\* when the file exists, up to the entry on which the load raises
LoadUsageData(f) ==
    IF ~f.exists \/ ~f.readable THEN [m \in Models |-> ModelUsage]
    ELSE LET n == LoadedEntries(f)
         IN  [m \in Models |->
                IF \E i \in 1..n : model_order[i] = m
                THEN LoadedUsage(f.data[m]) ELSE ModelUsage]

\* the file after __init__: _load_usage_data saves when it ran to its end
FileAfterLoad(f) ==
    IF LoadsCompletely(f) THEN SavedData(LoadUsageData(f)) ELSE f

\* InitialModel taking the last model of the priority list
InitialModelLast == model_priority[Len(model_priority)]

\* self.current_model = self.model_priority[0]
InitialModel == model_priority[1]


\* ---------------------------------------------------------------- state

VARIABLES
    current_model,  \* GeminiRateLimiter.current_model
    usage,          \* GeminiRateLimiter.usage: model name -> ModelUsage
    file,           \* rate_limiter_usage.json: whether it exists, and its content
    handler,        \* each request handler: where it is and its locals
    last,           \* the rate limiter call that returned last, and what it returned
    calls,          \* LLM invocations whose outcome has been handled
    restarts,       \* process restarts so far
    days            \* calendar-day boundaries passed so far

vars == << current_model, usage, file, handler, last, calls, restarts, days >>

\* a handler with no request in progress
IdleHandler ==
    [pc |-> "idle", model_to_use |-> NoModel, estimated_tokens |-> 0,
     slept |-> 0, reason |-> ""]

\* the call op returned (model, msg); about is the model the message names,
\* summary_info the note a switch message ends with
Returned(op, model, msg, about) ==
    [op |-> op, model |-> model, msg |-> msg, about |-> about, summary_info |-> ""]

NoResult == Returned("", NoModel, "", NoModel)

\* estimate_tokens rounding the quotient up
estimate_tokens_rounded_up(text_len) ==
    IF (text_len + 3) \div 4 > 100 THEN (text_len + 3) \div 4 ELSE 100

\* estimate_tokens(text) for a text of text_len characters:
\* max(len(text) // 4, 100)
estimate_tokens(text_len) ==
    IF text_len \div 4 > 100 THEN text_len \div 4 ELSE 100

\* the smallest count that AtThreshold accepts for limit
ThresholdCount(limit) == (ThresholdNum * limit + ThresholdDen - 1) \div ThresholdDen

\* n records of a previous process, written StartupAge seconds before the start
RecentRecords(n) ==
    [i \in 1..n |-> [timestamp |-> Stored("iso", StartupAge), tokens |-> 1000]]

\* A usage file written earlier on the same day by a previous process: the
\* models before position k were forced to their daily cap by quota errors;
\* the model at position k is one request below 90% of its daily cap (near),
\* and one request below 90% of its per-minute cap, as far as the file holds
\* that many records (recent).
PersistedFile(k, near, recent) ==
    [exists |-> TRUE, readable |-> TRUE,
     data |->
        [m \in Models |->
            LET at == PriorityIndex(m) = k
                n  == IF at /\ recent
                      THEN ThresholdCount(model_limits[m].requests_per_minute) - 1
                      ELSE 0
            IN  [requests_today |->
                    IF PriorityIndex(m) < k THEN model_limits[m].requests_per_day
                    ELSE IF at /\ near
                         THEN ThresholdCount(model_limits[m].requests_per_day) - 1
                         ELSE n,
                 last_day_reset  |-> Stored("iso", Now),
                 request_records |->
                    RecentRecords(IF n > MaxStoredRecords THEN MaxStoredRecords ELSE n)]]]

\* the usage files a process of Spec may find at its first start
PersistedFiles ==
    { NoFile,
      PersistedFile(1, TRUE, FALSE),
      PersistedFile(5, FALSE, TRUE),
      PersistedFile(6, FALSE, FALSE) }

\* GeminiRateLimiter.__init__ over the usage file f
Constructed(f) ==
    /\ usage = LoadUsageData(f)
    /\ file = FileAfterLoad(f)
    /\ current_model = InitialModel

\* the process has started: no request yet
Started(handlers) ==
    /\ handler = [h \in handlers |-> IdleHandler]
    /\ last = NoResult
    /\ calls = 0
    /\ restarts = 0
    /\ days = 0

Init ==
    /\ \E f \in PersistedFiles : Constructed(f)
    /\ Started(Handlers)

\* get_current_gemini_model(): the model the assistant node builds its LLM
\* with, rate_limiter.current_model read when the node runs
get_current_gemini_model == current_model

\* ------------------------------------------------- check_and_wait_if_needed

\* check_and_wait_if_needed that searches for a later model without testing
\* whether the current one is exhausted
CheckDecisionWithoutTest(us, cur, estimated_tokens) ==
    LET nx == get_next_available_model(us, cur)
    IN  IF nx.model /= NoModel
        THEN [kind |-> "switched", model |-> nx.model, usage |-> nx.usage, reason |-> ""]
        ELSE [kind |-> "all_exhausted", model |-> cur, usage |-> nx.usage, reason |-> ""]

\* check_and_wait_if_needed(estimated_tokens) up to its return or its sleep:
\* the ledger and current model it leaves, and what it does
CheckDecision(us, cur, estimated_tokens) ==
    IF has_exceeded_daily_limit_no_reset(us, cur)
    THEN LET nx == get_next_available_model(us, cur)
         IN  IF nx.model /= NoModel
             THEN [kind |-> "switched", model |-> nx.model, usage |-> nx.usage, reason |-> ""]
             ELSE [kind |-> "all_exhausted", model |-> cur, usage |-> nx.usage, reason |-> ""]
    ELSE LET reason == is_approaching_limit_no_reset(us, cur, estimated_tokens)
         IN  IF reason /= ""
             THEN [kind |-> "delay", model |-> cur, usage |-> us, reason |-> reason]
             ELSE [kind |-> "none", model |-> cur, usage |-> us, reason |-> ""]

\* FreeSlot of an event loop that a sleeping handler blocks (time.sleep)
FreeSlotUnlessSleeping(h) ==
    /\ handler[h].pc = "idle"
    /\ \A g \in DOMAIN handler :
            /\ handler[g].pc /= "sleeping"
            /\ HandlerRank(g) < HandlerRank(h) => handler[g].pc /= "idle"

\* Handlers are interchangeable coroutines: a new request runs in the first
\* one that has no request in progress.
FreeSlot(h) ==
    /\ handler[h].pc = "idle"
    /\ \A g \in DOMAIN handler :
            HandlerRank(g) < HandlerRank(h) => handler[g].pc /= "idle"

\* A handler receives a request and calls check_and_wait_if_needed.  On a
\* switch or on global exhaustion the call returns a message and the handler
\* answers the client without invoking the model; on the delay path the call
\* suspends in asyncio.sleep; otherwise the handler goes on to invoke the model
\* returned.
CheckStart(h, estimated_tokens) ==
    /\ FreeSlot(h)
    /\ LET d == CheckDecision(usage, current_model, estimated_tokens)
       IN  /\ current_model' = d.model
           /\ usage' = d.usage
           /\ CASE d.kind \in {"switched", "all_exhausted"} ->
                     /\ handler' = handler
                     /\ last' = Returned("check", d.model, d.kind, current_model)
                [] d.kind = "delay" ->
                     /\ handler' = [handler EXCEPT ![h] =
                            [pc |-> "sleeping", model_to_use |-> current_model,
                             estimated_tokens |-> estimated_tokens, slept |-> 0,
                             reason |-> d.reason]]
                     /\ last' = last
                [] OTHER ->
                     /\ handler' = [handler EXCEPT ![h] =
                            [pc |-> "invoke", model_to_use |-> d.model,
                             estimated_tokens |-> estimated_tokens, slept |-> 0,
                             reason |-> ""]]
                     /\ last' = Returned("check", d.model, "none", NoModel)
    /\ UNCHANGED << file, calls, restarts, days >>

\* asyncio.sleep(self.delay_when_approaching_limit) is over:
\* check_and_wait_if_needed returns (self.current_model, delay_message) and
\* the handler answers the client with the waiting message.
CheckWake(h) ==
    /\ handler[h].pc = "sleeping"
    /\ handler[h].slept >= delay_when_approaching_limit
    /\ last' = Returned("check", current_model, "delay", handler[h].model_to_use)
    /\ handler' = [handler EXCEPT ![h] = IdleHandler]
    /\ UNCHANGED << current_model, usage, file, calls, restarts, days >>


\* ---------------------------------------------------------- record_request

\* record_request(model_name, tokens_used): the ledger it leaves; the file
\* then holds SavedData of it
record_request(us, m, tokens_used) == RecordedUsage(us, m, tokens_used)

\* The model call of handler h succeeded: record_request(model_to_use,
\* actual_tokens), then the response goes to the client.
InvokeOKAt(h, tokens, limit, repeated_hour, disk) ==
    /\ handler[h].pc = "invoke"
    /\ calls < limit
    /\ usage' = record_request(usage, handler[h].model_to_use, tokens)
    /\ file' = Written(file, save_usage_data(usage', repeated_hour), disk)
    /\ last' = Returned("record", NoModel, "", handler[h].model_to_use)
    /\ handler' = [handler EXCEPT ![h] = IdleHandler]
    /\ calls' = calls + 1
    /\ UNCHANGED << current_model, restarts, days >>

\* the same outside a repeated hour, the file written
InvokeOK(h, tokens, limit) == InvokeOKAt(h, tokens, limit, FALSE, "written")

\* ------------------------------------- record_request_with_error_handling

\* How the Conversation-Context Bridge of a switch can end: the graph holds no
\* messages for the conversation, reading the graph state raises, the
\* summarization service answers with an error status or raises, the request
\* to it runs into timeout=30, or the service answers with a summary.
BridgeOutcomes ==
    {"no_history", "history_failed", "summarize_failed", "summarize_timeout",
     "summarized"}

\* _get_conversation_history(agent_id, conversation_id): whether it returns
\* messages; every failure inside it returns []
get_conversation_history(bridge) ==
    IF bridge \in {"no_history", "history_failed"} THEN "" ELSE "messages"

\* _summarize_conversation that answers a failure with a placeholder text
summarize_conversation_placeholder(bridge, previous_summary) ==
    IF bridge = "summarized" THEN "summary" ELSE "summary unavailable"

\* _summarize_conversation(messages, previous_summary): the summary of the
\* service on status 200, previous_summary on any other status or exception
summarize_conversation(bridge, previous_summary) ==
    IF bridge = "summarized" THEN "summary" ELSE previous_summary

\* conversation_summary after the try block of the switch branch
conversation_summary(bridge) ==
    IF get_conversation_history(bridge) /= ""
    THEN summarize_conversation(bridge, "")
    ELSE ""

\* summary_info: the note appended to the switch message
summary_info(bridge) ==
    IF conversation_summary(bridge) /= "" THEN "Conversation summarized" ELSE ""

\* record_request_with_error_handling(model_name, ..., api_error) with an
\* api_error that _is_quota_exceeded_error accepts: the ledger, the file and
\* the current model it leaves, and what it returns apart from the note of
\* the bridge
QuotaErrorOutcome(us, cur, model_name) ==
    LET before == are_all_models_exhausted(us)
        forced == [before.usage EXCEPT ![model_name].requests_today = ForcedCount(model_name)]
        nx     == get_next_available_model(forced, cur)
    IN  IF nx.model /= NoModel /\ nx.model /= cur
        THEN [usage |-> nx.usage, saved |-> SavedData(forced), model |-> nx.model,
              msg |-> "quota_switched", about |-> cur]
        ELSE IF before.all
        THEN [usage |-> nx.usage, saved |-> SavedData(forced), model |-> cur,
              msg |-> "ALL_MODELS_EXHAUSTED", about |-> NoModel]
        ELSE [usage |-> nx.usage, saved |-> SavedData(forced), model |-> cur,
              msg |-> "TEMPORARY_API_ISSUE", about |-> model_name]

\* what record_request_with_error_handling returns in the quota branch: the
\* switch message ends with the note of the bridge, the others have none
QuotaErrorReturned(o, bridge) ==
    [Returned("error", o.model, o.msg, o.about)
        EXCEPT !.summary_info = IF o.msg = "quota_switched"
                                THEN summary_info(bridge) ELSE ""]

\* QuotaErrorAt with a _save_usage_data() that lets a failed write escape:
\* the exception leaves record_request_with_error_handling after the forced
\* cap, before the switch
QuotaErrorRaising(h, limit, bridge, disk) ==
    /\ handler[h].pc = "invoke"
    /\ calls < limit
    /\ LET o == QuotaErrorOutcome(usage, current_model, handler[h].model_to_use)
           forced == [are_all_models_exhausted(usage).usage
                         EXCEPT ![handler[h].model_to_use].requests_today =
                                    ForcedCount(handler[h].model_to_use)]
       IN  IF disk = "written"
           THEN /\ usage' = o.usage
                /\ file' = o.saved
                /\ current_model' = o.model
                /\ last' = QuotaErrorReturned(o, bridge)
           ELSE /\ usage' = forced
                /\ file' = Written(file, o.saved, disk)
                /\ current_model' = current_model
                /\ last' = Returned("error", current_model, "raised",
                                    handler[h].model_to_use)
    /\ handler' = [handler EXCEPT ![h] = IdleHandler]
    /\ calls' = calls + 1
    /\ UNCHANGED << restarts, days >>

\* The model call of handler h failed with a provider quota error: the
\* handler calls record_request_with_error_handling(model_to_use,
\* estimated_tokens, str(e), agent_id, conversation_id) and answers the client
\* from what it returns; bridge is how the Conversation-Context Bridge ends
\* if the call switches (one of bridges), disk how the write of
\* _save_usage_data() ends.
QuotaErrorAmong(h, limit, bridges, disk) ==
    /\ handler[h].pc = "invoke"
    /\ calls < limit
    /\ handler' = [handler EXCEPT ![h] = IdleHandler]
    /\ calls' = calls + 1
    /\ LET o == QuotaErrorOutcome(usage, current_model, handler[h].model_to_use)
       IN  /\ usage' = o.usage
           /\ file' = Written(file, o.saved, disk)
           /\ current_model' = o.model
           /\ \E bridge \in bridges : last' = QuotaErrorReturned(o, bridge)
    /\ UNCHANGED << restarts, days >>

\* the same with the bridge ending as bridge
QuotaErrorAt(h, limit, bridge, disk) == QuotaErrorAmong(h, limit, {bridge}, disk)

\* the same, the file written
QuotaErrorBridged(h, limit, bridge) == QuotaErrorAt(h, limit, bridge, "written")

\* the same, however the bridge ends
InvokeQuotaError(h, limit) == QuotaErrorAmong(h, limit, BridgeOutcomes, "written")

\* InvokeOtherError taking the quota branch for every error
InvokeOtherErrorAsQuota(h, limit) == InvokeQuotaError(h, limit)

\* The model call of handler h failed with an error the handler routes to
\* record_request_with_error_handling ("quota" in its text) but that
\* _is_quota_exceeded_error rejects: self.record_request(model_name,
\* tokens_used), return (self.current_model, None).
InvokeOtherError(h, limit) ==
    /\ handler[h].pc = "invoke"
    /\ calls < limit
    /\ usage' = record_request(usage, handler[h].model_to_use, handler[h].estimated_tokens)
    /\ file' = SavedData(usage')
    /\ last' = Returned("error", current_model, "none", handler[h].model_to_use)
    /\ handler' = [handler EXCEPT ![h] = IdleHandler]
    /\ calls' = calls + 1
    /\ UNCHANGED << current_model, restarts, days >>

\* ------------------------------------------------------------ get_usage_stats

RECURSIVE StatsFrom(_, _)
StatsFrom(us, i) ==
    IF i > Len(model_order) THEN us
    ELSE StatsFrom(has_exceeded_daily_limit(cleanup_old_records(us, model_order[i]),
                                            model_order[i]).usage,
                   i + 1)

\* get_usage_stats(): the ledger it leaves (every model cleaned up and, when
\* due, reset)
get_usage_stats(us) == StatsFrom(us, 1)

\* The dictionary get_usage_stats() returns: for every model the counts of
\* the strings 'requests_per_minute' and 'requests_per_day', formatted after
\* the cleanup and before _has_exceeded_daily_limit applies a reset that is
\* due, then is_current_model and the answer of _has_exceeded_daily_limit.
StatsResponse(us, cur) ==
    [current_model |-> cur,
     models |->
        [m \in Models |->
            LET cleaned == cleanup_old_records(us, m)
            IN  [requests_per_minute  |-> requests_this_minute(cleaned[m]),
                 requests_per_day     |-> cleaned[m].requests_today,
                 is_current_model     |-> m = cur,
                 daily_limit_exceeded |-> has_exceeded_daily_limit(cleaned, m).exceeded]]]

\* GET /rate-limit-stats
GetUsageStats ==
    /\ usage' = get_usage_stats(usage)
    /\ UNCHANGED << current_model, file, handler, last, calls, restarts, days >>

\* ---------------------------------------------------------------- time

AgeBy(age, seconds) == IF age + seconds >= AgeCap THEN AgeCap ELSE age + seconds

AgedRecords(records, seconds) ==
    [i \in DOMAIN records |-> [age |-> AgeBy(records[i].age, seconds),
                               tokens |-> records[i].tokens]]

AgedLedger(us, seconds) ==
    [m \in Models |->
        [requests_today  |-> us[m].requests_today,
         last_day_reset  |-> us[m].last_day_reset,
         request_records |-> AgedRecords(us[m].request_records, seconds)]]

NextDayLedger(us) ==
    [m \in Models |-> [us[m] EXCEPT !.last_day_reset = 1]]

\* a stored timestamp that names an instant, seconds later
AgedStored(timestamp_value, seconds) ==
    IF timestamp_value.enc \in {"iso", "epoch"}
    THEN Stored(timestamp_value.enc, AgeBy(timestamp_value.at, seconds))
    ELSE timestamp_value

\* the content of the usage file, seconds later
AgedData(data, seconds) ==
    [m \in Models |->
        [data[m] EXCEPT !.request_records =
            [i \in DOMAIN @ |->
                [timestamp |-> AgedStored(@[i].timestamp, seconds),
                 tokens    |-> @[i].tokens]]]]

\* the content of the usage file on the next calendar day
NextDayData(data) ==
    [m \in Models |->
        [data[m] EXCEPT !.last_day_reset =
            IF @.enc \in {"iso", "epoch"} THEN Stored(@.enc, 1) ELSE @]]

\* seconds pass
Tick(seconds) ==
    /\ usage' = AgedLedger(usage, seconds)
    /\ file' = IF ~file.exists \/ ~file.readable THEN file
                ELSE [file EXCEPT !.data = AgedData(file.data, seconds)]
    /\ handler' = [h \in DOMAIN handler |->
            IF handler[h].pc = "sleeping"
            THEN [handler[h] EXCEPT !.slept =
                    IF @ + seconds >= delay_when_approaching_limit
                    THEN delay_when_approaching_limit ELSE @ + seconds]
            ELSE handler[h]]
    /\ UNCHANGED << current_model, last, calls, restarts, days >>

\* the calendar date advances
Midnight ==
    /\ days < MaxDays
    /\ days' = days + 1
    /\ usage' = NextDayLedger(usage)
    /\ file' = IF ~file.exists \/ ~file.readable THEN file
                ELSE [file EXCEPT !.data = NextDayData(file.data)]
    /\ UNCHANGED << current_model, handler, last, calls, restarts >>

\* ---------------------------------------------------------------- restart

\* The process is restarted: every request in progress is gone and the
\* module-level rate_limiter = GeminiRateLimiter() is constructed again;
\* read_ok unless open() or json.load raises on the file, disk how the write
\* of the save after the load ends.
RestartAt(read_ok, disk) ==
    /\ restarts < MaxRestarts
    /\ LET f == IF read_ok THEN file ELSE [file EXCEPT !.readable = FALSE]
       IN  /\ usage' = LoadUsageData(f)
           /\ file' = IF LoadsCompletely(f)
                       THEN Written(file, FileAfterLoad(f), disk)
                       ELSE file
    /\ current_model' = InitialModel
    /\ handler' = [h \in DOMAIN handler |-> IdleHandler]
    /\ last' = NoResult
    /\ restarts' = restarts + 1
    /\ UNCHANGED << calls, days >>

\* the same with a file that can be read and written
Restart == RestartAt(TRUE, "written")

\* The model call of handler h failed with an error the handler does not
\* route to the rate limiter: nothing is recorded.
InvokeFailed(h) ==
    /\ handler[h].pc = "invoke"
    /\ handler' = [handler EXCEPT ![h] = IdleHandler]
    /\ UNCHANGED << current_model, usage, file, last, calls, restarts, days >>

Next ==
    \/ \E h \in Handlers, estimated_tokens \in EstChoices : CheckStart(h, estimated_tokens)
    \/ \E h \in Handlers : CheckWake(h)
    \/ \E h \in Handlers, tokens \in TokenChoices : InvokeOK(h, tokens, MaxCalls)
    \/ \E h \in Handlers : InvokeQuotaError(h, MaxCalls)
    \/ \E h \in Handlers : InvokeOtherError(h, MaxCalls)
    \/ \E h \in Handlers : InvokeFailed(h)
    \/ GetUsageStats
    \/ \E seconds \in TickSteps : Tick(seconds)
    \/ Midnight

\* One process, from its start on.
Spec == Init /\ [][Next]_vars

\* The same with restarts of the process, over fewer model invocations.
NextWithRestart ==
    \/ \E h \in Handlers, estimated_tokens \in EstChoices : CheckStart(h, estimated_tokens)
    \/ \E h \in Handlers : CheckWake(h)
    \/ \E h \in Handlers, tokens \in TokenChoices : InvokeOK(h, tokens, MaxCallsRestart)
    \/ \E h \in Handlers : InvokeQuotaError(h, MaxCallsRestart)
    \/ \E h \in Handlers : InvokeOtherError(h, MaxCallsRestart)
    \/ \E h \in Handlers : InvokeFailed(h)
    \/ GetUsageStats
    \/ \E seconds \in TickSteps : Tick(seconds)
    \/ Midnight
    \/ Restart

SpecRestart == Init /\ [][NextWithRestart]_vars


\* Clients retry, time passes, the date advances and a suspended check_and_wait_if_needed is
\* resumed when its sleep is over: asyncio runs every ready coroutine.
Fairness ==
    /\ WF_vars(\E h \in Handlers, estimated_tokens \in EstChoices :
                    CheckStart(h, estimated_tokens))
    /\ \A h \in Handlers : WF_vars(CheckWake(h))
    /\ WF_vars(\E seconds \in TickSteps : Tick(seconds))
    /\ WF_vars(Midnight)

SpecFair == Init /\ [][Next]_vars /\ Fairness

\* A burst: one client sends request after request to a process that found
\* the models before some position exhausted; every call succeeds and no
\* time passes, so that all of it happens within one 60 second window.
InitBurst ==
    /\ \E k \in DOMAIN model_priority : Constructed(PersistedFile(k, FALSE, FALSE))
    /\ Started({"h1"})

NextBurst ==
    \/ CheckStart("h1", BurstTokens)
    \/ InvokeOK("h1", BurstTokens, MaxBurst)

SpecBurst == InitBurst /\ [][NextBurst]_vars

\* A race: three requests in flight at once on a fresh process, each ending
\* in success or in a quota error; no time passes.
RaceHandlers == {"h1", "h2", "h3"}

InitRace ==
    /\ Constructed(NoFile)
    /\ Started(RaceHandlers)

NextRace ==
    \/ \E h \in RaceHandlers : CheckStart(h, BurstTokens)
    \/ \E h \in RaceHandlers : InvokeOK(h, BurstTokens, MaxCallsRace)
    \/ \E h \in RaceHandlers : InvokeQuotaError(h, MaxCallsRace)

SpecRace == InitRace /\ [][NextRace]_vars


\* The sliding window second by second: one client, whose requests succeed,
\* the statistics endpoint, and a clock that is read after 1 or 30 seconds.
WindowTicks == {1, 30}

InitWindow ==
    /\ Constructed(NoFile)
    /\ Started({"h1"})

NextWindow ==
    \/ CheckStart("h1", BurstTokens)
    \/ InvokeOK("h1", BurstTokens, MaxCallsWindow)
    \/ \E seconds \in WindowTicks : Tick(seconds)
    \/ GetUsageStats

SpecWindow == InitWindow /\ [][NextWindow]_vars


\* The burst of SpecBurst with requests that can be told apart: the request
\* recorded as the n-th reports n tokens.
NextSerial ==
    \/ CheckStart("h1", BurstTokens)
    \/ InvokeOK("h1", calls + 1, MaxBurst)

SpecSerial == InitBurst /\ [][NextSerial]_vars


\* Two clients of a process whose first model is one request short of 90% of
\* its daily cap: requests succeed, get delayed and wake up, the statistics
\* endpoint is polled and time passes.
InitSleep ==
    /\ Constructed(PersistedFile(1, TRUE, FALSE))
    /\ Started(Handlers)

NextSleep ==
    \/ \E h \in Handlers, estimated_tokens \in EstChoices : CheckStart(h, estimated_tokens)
    \/ \E h \in Handlers : CheckWake(h)
    \/ \E h \in Handlers : InvokeOK(h, BurstTokens, MaxCallsWindow)
    \/ \E seconds \in TickSteps : Tick(seconds)
    \/ GetUsageStats

SpecSleep == InitSleep /\ [][NextSleep]_vars


\* One handler whose successful requests are saved inside or outside a
\* repeated wall-clock hour, with time passing, day changes and restarts
\* that load the saved file.
InitRoundTrip ==
    /\ Constructed(NoFile)
    /\ Started({"h1"})

NextRoundTrip ==
    \/ CheckStart("h1", BurstTokens)
    \/ \E repeated_hour \in BOOLEAN :
          InvokeOKAt("h1", BurstTokens, MaxCallsWindow, repeated_hour, "written")
    \/ \E seconds \in WindowTicks : Tick(seconds)
    \/ Midnight
    \/ Restart

SpecRoundTrip == InitRoundTrip /\ [][NextRoundTrip]_vars


\* One handler on a disk that can fail: the usage file found at the start may
\* be missing or unreadable, and every read and write of it may fail.
InitDisk ==
    /\ \E f \in {NoFile, Unreadable, PersistedFile(1, TRUE, FALSE)} : Constructed(f)
    /\ Started({"h1"})

NextDisk ==
    \/ CheckStart("h1", BurstTokens)
    \/ \E disk \in DiskOutcomes :
          InvokeOKAt("h1", BurstTokens, MaxCallsWindow, FALSE, disk)
    \/ \E bridge \in BridgeOutcomes, disk \in DiskOutcomes :
          QuotaErrorAt("h1", MaxCallsWindow, bridge, disk)
    \/ \E read_ok \in BOOLEAN, disk \in DiskOutcomes : RestartAt(read_ok, disk)
    \/ \E seconds \in TickSteps : Tick(seconds)

SpecDisk == InitDisk /\ [][NextDisk]_vars


\* how a last_day_reset and a record timestamp of a usage file that this
\* version of the program did not write can be encoded
ResetEncodings == {"iso", "epoch", "text", "null", "bool", "huge"}
TimestampEncodings == {"iso", "epoch", "text", "null", "bool"}

\* A usage file of the same day left by another writer: the first model has
\* 3 requests today, last_day_reset written as reset_enc and one record of
\* StartupAge seconds ago with its timestamp written as timestamp_enc; the
\* second model has 7 requests and one such record in ISO strings.
StoredFile(reset_enc, timestamp_enc) ==
    [exists |-> TRUE, readable |-> TRUE,
     data |->
        [m \in Models |->
            IF m = model_order[1]
            THEN [requests_today  |-> 3,
                  last_day_reset  |-> Stored(reset_enc, Now),
                  request_records |->
                     << [timestamp |-> Stored(timestamp_enc, StartupAge),
                         tokens    |-> 1000] >>]
            ELSE IF m = model_order[2]
            THEN [requests_today  |-> 7,
                  last_day_reset  |-> Stored("iso", Now),
                  request_records |-> RecentRecords(1)]
            ELSE [requests_today  |-> 0,
                  last_day_reset  |-> Stored("iso", Now),
                  request_records |-> << >>]]]

StoredFiles ==
    { StoredFile(reset_enc, timestamp_enc) :
        reset_enc \in ResetEncodings, timestamp_enc \in TimestampEncodings }

\* rate_limiter_usage.json is put in place by another writer while no
\* request is in progress
FileReplaced ==
    /\ restarts < MaxRestarts
    /\ \E f \in StoredFiles : file' = f
    /\ UNCHANGED << current_model, usage, handler, last, calls, restarts, days >>

\* A process without requests whose usage file is replaced, ages, and is
\* loaded by a restart.
InitLoad ==
    /\ Constructed(NoFile)
    /\ Started({"h1"})

NextLoad ==
    \/ FileReplaced
    \/ \E seconds \in WindowTicks : Tick(seconds)
    \/ Midnight
    \/ Restart

SpecLoad == InitLoad /\ [][NextLoad]_vars


\* The lengths of the messages of SpecEstimate.
TextLengths == 0..MaxTextLen

\* POST /chat with a message of text_len characters: estimated_tokens =
\* rate_limiter.estimate_tokens(message), then check_and_wait_if_needed(
\* estimated_tokens)
ChatStart(h, text_len) == CheckStart(h, estimate_tokens(text_len))

\* One handler that receives messages of every length; the model call fails
\* with an error that is not routed to the rate limiter.
InitEstimate ==
    /\ Constructed(NoFile)
    /\ Started({"h1"})

NextEstimate ==
    \/ \E text_len \in TextLengths : ChatStart("h1", text_len)
    \/ InvokeFailed("h1")

SpecEstimate == InitEstimate /\ [][NextEstimate]_vars


\* ------------------------------------------------ streaming requests (SSE)

\* How event_generator() of a streaming endpoint can end: the graph ran to
\* its end ("done"); astream_events raised an error that the handler routes
\* to record_request_with_error_handling and that _is_quota_exceeded_error
\* accepts ("quota"), or rejects ("quota_like": the word quota without one
\* of the indicators); it raised any other error ("error").
StreamEndings == {"done", "quota", "quota_like", "error"}

\* Tokens counted from the chunks streamed before the end (tokens_used, or
\* real_total_tokens of the on_chat_model_end events); 0: nothing streamed.
StreamedTokens == {0, BurstTokens}

\* The stream of handler h ends: the except clause of event_generator()
\* calls record_request_with_error_handling(model_to_use, estimated_tokens,
\* str(e), ...) for a routed error, then the finally clause calls
\* record_request(model_to_use, tokens) when tokens were counted.
StreamEnds(h, ending, streamed, limit) ==
    /\ handler[h].pc = "invoke"
    /\ calls < limit
    /\ handler' = [handler EXCEPT ![h] = IdleHandler]
    /\ calls' = calls + 1
    /\ LET model_to_use == handler[h].model_to_use
           o == QuotaErrorOutcome(usage, current_model, model_to_use)
           handled ==
               CASE ending = "quota" ->
                        [usage |-> o.usage, saved |-> o.saved, written |-> TRUE,
                         model |-> o.model, msg |-> o.msg]
                 [] ending = "quota_like" ->
                        LET us == record_request(usage, model_to_use,
                                                 handler[h].estimated_tokens)
                        IN  [usage |-> us, saved |-> SavedData(us), written |-> TRUE,
                             model |-> current_model, msg |-> "none"]
                 [] OTHER ->
                        [usage |-> usage, saved |-> file, written |-> FALSE,
                         model |-> current_model, msg |-> ending]
       IN  /\ current_model' = handled.model
           /\ usage' = IF streamed > 0
                       THEN record_request(handled.usage, model_to_use, streamed)
                       ELSE handled.usage
           /\ file' = IF streamed > 0 THEN SavedData(usage')
                      ELSE IF handled.written THEN handled.saved ELSE file
           /\ last' = Returned("stream", handled.model, handled.msg, model_to_use)
    /\ UNCHANGED << restarts, days >>

\* Two handlers serving streaming requests, from a fresh start.
InitStream ==
    /\ Constructed(NoFile)
    /\ Started(Handlers)

NextStream ==
    \/ \E h \in Handlers : CheckStart(h, BurstTokens)
    \/ \E h \in Handlers, ending \in StreamEndings, streamed \in StreamedTokens :
          StreamEnds(h, ending, streamed, MaxCallsStream)
    \/ \E seconds \in TickSteps : Tick(seconds)

SpecStream == InitStream /\ [][NextStream]_vars


\* ----------------------------------- concurrent checks of an exhausted model

\* A usage file written earlier on the same day: the models before position
\* k are at their daily cap, the model at position k has reached 90% of its
\* daily cap (at_threshold) or has not been used; no request in the last
\* minute.
ExhaustedFile(k, at_threshold) ==
    [exists |-> TRUE, readable |-> TRUE,
     data |->
        [m \in Models |->
            [requests_today |->
                IF PriorityIndex(m) < k THEN model_limits[m].requests_per_day
                ELSE IF PriorityIndex(m) = k /\ at_threshold
                     THEN ThresholdCount(model_limits[m].requests_per_day)
                     ELSE 0,
             last_day_reset  |-> Stored("iso", Now),
             request_records |-> RecentRecords(0)]]]

\* Three requests arrive while the first models of the priority list are at
\* their daily cap in the usage file of the day and current_model is still
\* the first one: each handler awaits check_and_wait_if_needed on the one
\* event loop.
InitChecks ==
    /\ \E k \in 2..Len(model_priority), at_threshold \in BOOLEAN :
          Constructed(ExhaustedFile(k, at_threshold))
    /\ Started(RaceHandlers)

NextChecks ==
    \/ \E h \in RaceHandlers : CheckStart(h, BurstTokens)
    \/ \E h \in RaceHandlers : CheckWake(h)
    \/ \E seconds \in TickSteps : Tick(seconds)

SpecChecks == InitChecks /\ [][NextChecks]_vars


\* ================================================================ claims

\* what the claims speak of, read off the state
Cap(m) == model_limits[m].requests_per_day
CountToday(m) == usage[m].requests_today
ResetDue(m) == usage[m].last_day_reset > 0
WindowRecords(m) ==
    { i \in DOMAIN usage[m].request_records : usage[m].request_records[i].age < 60 }
Least(S) == CHOOSE i \in S : \A j \in S : i <= j
AnyCheckStart(h) == \E estimated_tokens \in EstChoices : CheckStart(h, estimated_tokens)
AnyQuotaError(h) == InvokeQuotaError(h, calls + 1)

\* requests_today < requests_per_day, as stored
HasQuotaAsStored(m) == CountToday(m) < Cap(m)
\* requests_today < requests_per_day once the day-rollover reset that is due
\* for the model has been applied
HasQuotaAfterReset(m) == ResetDue(m) \/ CountToday(m) < Cap(m)

\* current_model becomes the first later model that HasQuota accepts and is
\* returned with the 'switched' message; when there is none it stays and is
\* returned with the 'all models have reached their daily limits' message
FallsBackTo(HasQuota(_)) ==
    LET later == { i \in DOMAIN model_priority :
                     /\ i > PriorityIndex(current_model)
                     /\ HasQuota(model_priority[i]) }
    IN  IF later /= {}
        THEN /\ current_model' = model_priority[Least(later)]
             /\ last' = Returned("check", current_model', "switched", current_model)
        ELSE /\ current_model' = current_model
             /\ last' = Returned("check", current_model, "all_exhausted", current_model)

\* C1 as stated: when the current model is daily-exhausted,
\* check_and_wait_if_needed switches to the first later model whose stored
\* requests_today is below its requests_per_day, or reports global exhaustion
\* and keeps the current model when there is none.
C1_FallbackOrderingAsStated ==
    [][\A h \in DOMAIN handler :
          AnyCheckStart(h) /\ CountToday(current_model) >= Cap(current_model)
              => FallsBackTo(HasQuotaAsStored)]_vars

\* C1 amended: the same, where a later model counts as having quota when its
\* requests_today is below its requests_per_day after the day-rollover reset
\* that is due for it (the search resets such a model and takes it).
C1_FallbackOrdering ==
    [][\A h \in DOMAIN handler :
          AnyCheckStart(h) /\ CountToday(current_model) >= Cap(current_model)
              => FallsBackTo(HasQuotaAfterReset)]_vars

\* C1 witness: a check switched over at least one exhausted model
C1_Witness ==
    /\ last.op = "check" /\ last.msg = "switched"
    /\ \E i \in DOMAIN model_priority :
          /\ PriorityIndex(last.about) < i /\ i < PriorityIndex(last.model)
          /\ ~HasQuotaAfterReset(model_priority[i])

\* every configured model has requests_today >= requests_per_day, as stored
EveryModelAtCap == \A m \in Models : CountToday(m) >= Cap(m)
\* every configured model has requests_today >= requests_per_day and no
\* day-rollover reset is due for it
EveryModelExhaustedToday == \A m \in Models : ~ResetDue(m) /\ CountToday(m) >= Cap(m)

\* a quota error of handler h that made no switch returned the unchanged
\* current model, with ALL_MODELS_EXHAUSTED when WereExhausted and with
\* TEMPORARY_API_ISSUE:<failing model> otherwise
NoSwitchAnswer(h, WereExhausted) ==
    last'.msg /= "quota_switched" =>
        /\ current_model' = current_model
        /\ last'.op = "error" /\ last'.model = current_model
        /\ IF WereExhausted
           THEN last'.msg = "ALL_MODELS_EXHAUSTED"
           ELSE /\ last'.msg = "TEMPORARY_API_ISSUE"
                /\ last'.about = handler[h].model_to_use

\* C2 as stated: a quota-classified record_request_with_error_handling that
\* makes no switch returns ALL_MODELS_EXHAUSTED exactly when every model's
\* stored requests_today was at its cap before the failing model was forced,
\* TEMPORARY_API_ISSUE:<failing model> otherwise, with current_model unchanged.
C2_ErrorVsExhaustionAsStated ==
    [][\A h \in DOMAIN handler :
          AnyQuotaError(h) => NoSwitchAnswer(h, EveryModelAtCap)]_vars

\* C2 amended: the same, where a model counts as daily-exhausted before the
\* error when its requests_today is at its cap and no day-rollover reset is
\* due for it.
C2_ErrorVsExhaustion ==
    [][\A h \in DOMAIN handler :
          AnyQuotaError(h) => NoSwitchAnswer(h, EveryModelExhaustedToday)]_vars

\* C2 witness: a quota error was answered ALL_MODELS_EXHAUSTED
C2_Witness ==
    /\ last.op = "error" /\ last.msg = "ALL_MODELS_EXHAUSTED"
    /\ last.model = current_model

\* tokens of the records of model m within the 60 second window
RECURSIVE WindowTokensUpTo(_, _)
WindowTokensUpTo(m, n) ==
    IF n = 0 THEN 0
    ELSE WindowTokensUpTo(m, n - 1)
            + (IF n \in WindowRecords(m) THEN usage[m].request_records[n].tokens ELSE 0)
WindowTokens(m) == WindowTokensUpTo(m, Len(usage[m].request_records))
\* value >= 90% of limit
NinetyPercent(value, limit) == 10 * value >= 9 * limit
\* one of the three 90% conditions holds for the current model
SomeLimitNear(estimated_tokens) ==
    LET m == current_model
    IN  \/ NinetyPercent(Cardinality(WindowRecords(m)), model_limits[m].requests_per_minute)
        \/ NinetyPercent(WindowTokens(m) + estimated_tokens, model_limits[m].tokens_per_minute)
        \/ NinetyPercent(CountToday(m), Cap(m))

\* C3: when the current model is not daily-exhausted, check_and_wait_if_needed
\* sleeps (and on waking returns the current model with the delay message)
\* if and only if requests_this_minute, tokens_this_minute + estimated_tokens
\* or requests_today is at 90% of its limit; otherwise it returns
\* (current_model, None) at once and the handler goes on to invoke.
C3_ProactiveThrottling ==
    [][/\ \A h \in DOMAIN handler, estimated_tokens \in EstChoices :
            CheckStart(h, estimated_tokens) /\ CountToday(current_model) < Cap(current_model)
              => /\ current_model' = current_model
                 /\ IF SomeLimitNear(estimated_tokens)
                    THEN handler'[h].pc = "sleeping" /\ last' = last
                    ELSE /\ handler'[h].pc = "invoke"
                         /\ handler'[h].model_to_use = current_model
                         /\ last' = Returned("check", current_model, "none", NoModel)
       /\ \A h \in DOMAIN handler :
            CheckWake(h) => /\ handler[h].slept >= 35
                            /\ last'.msg = "delay" /\ last'.model = current_model
      ]_vars

\* C3 witness: a check sleeps on a model with requests_per_minute = 10 that
\* has exactly 9 requests in the window, and nothing else near a limit
C3_Witness ==
    \E h \in DOMAIN handler :
        /\ handler[h].pc = "sleeping"
        /\ handler[h].model_to_use = current_model
        /\ model_limits[current_model].requests_per_minute = 10
        /\ Cardinality(WindowRecords(current_model)) = 9
        /\ ~NinetyPercent(CountToday(current_model), Cap(current_model))

\* C4: after k calls of record_request(m) within one 60 second window, with
\* k >= 90% of requests_per_minute(m), the next check_and_wait_if_needed on
\* current model m takes the delay path for the requests-per-minute reason.
\* (In SpecBurst no time passes, and when requests_today of the current model
\* equals calls, all calls recorded requests of that model.)
C4_BurstDelays ==
    [][(/\ CheckStart("h1", BurstTokens)
        /\ CountToday(current_model) = calls
        /\ NinetyPercent(calls, model_limits[current_model].requests_per_minute))
       => (/\ handler'["h1"].pc = "sleeping"
           /\ handler'["h1"].reason = "requests per minute")]_vars

\* C5: when record_request_with_error_handling takes the quota branch,
\* requests_today of the failing model equals its requests_per_day when the
\* call returns, whatever the outcome and the count before.
C5_QuotaErrorForcesCap ==
    [][\A h \in DOMAIN handler :
          AnyQuotaError(h) =>
              /\ usage'[handler[h].model_to_use].requests_today
                    = Cap(handler[h].model_to_use)
              /\ last'.msg \in {"quota_switched", "ALL_MODELS_EXHAUSTED",
                                "TEMPORARY_API_ISSUE"}]_vars

\* C5 witness: a quota error switched away from a model whose count is at its
\* cap although the ledger holds fewer requests of it
C5_Witness ==
    /\ last.op = "error" /\ last.msg = "quota_switched"
    /\ CountToday(last.about) = Cap(last.about)
    /\ Len(usage[last.about].request_records) < 2
    /\ current_model /= last.about

\* C6: check_and_wait_if_needed returns the 'all models have reached their
\* daily limits' message only when every model has requests_today >=
\* requests_per_day after the day-rollover resets that are due.
C6_ExhaustionMessageOnlyWhenExhausted ==
    [][\A h \in DOMAIN handler :
          (/\ AnyCheckStart(h)
           /\ handler' = handler
           /\ last' = Returned("check", current_model, "all_exhausted", current_model))
          => EveryModelExhaustedToday]_vars

\* some check_and_wait_if_needed call made now returns without the 'all
\* models have reached their daily limits' message
CheckNotExhausted ==
    \E estimated_tokens \in EstChoices :
        CheckDecision(usage, current_model, estimated_tokens).kind /= "all_exhausted"

\* C7: once every model is daily-exhausted and the calendar day has advanced,
\* calls of check_and_wait_if_needed eventually return a model without the
\* 'all models have reached their daily limits' message.
C7_RecoveryNextDay ==
    (EveryModelAtCap /\ \A m \in Models : ResetDue(m)) ~> CheckNotExhausted

\* some handler is on the delay path of check_and_wait_if_needed
Delaying == \E h \in DOMAIN handler : handler[h].pc = "sleeping"

\* some check_and_wait_if_needed call made now returns a null message or
\* switches model
CheckProceeds ==
    \E estimated_tokens \in EstChoices :
        CheckDecision(usage, current_model, estimated_tokens).kind \in {"none", "switched"}

\* C8: from any state in which check_and_wait_if_needed took the delay path,
\* with callers retrying and time passing, eventually a check returns a null
\* message or switches model.
C8_ThrottlingRecoverable == Delaying ~> CheckProceeds

\* C9: current_model is always exactly one element of model_priority, a key
\* of model_limits and of usage; at construction, also after a restart over
\* persisted usage data, it is the first model of model_priority.
C9_CurrentModelValid ==
    /\ current_model = model_priority[1]
    /\ [](/\ Cardinality({ i \in DOMAIN model_priority :
                             model_priority[i] = current_model }) = 1
          /\ current_model \in DOMAIN model_limits
          /\ current_model \in DOMAIN usage)
    /\ [][Restart => current_model' = model_priority[1]]_vars

\* C9 witness: a restarted process over a usage file in which the first model
\* is at its daily cap
C9_Witness ==
    /\ restarts >= 1
    /\ file.exists
    /\ current_model = model_priority[1]
    /\ CountToday(model_priority[1]) >= Cap(model_priority[1])
    /\ \A h \in DOMAIN handler : handler[h].pc = "idle"

\* C10: requests_today of a model never decreases within a calendar day; it
\* only drops, to 0, when the day has rolled over.
C10_CountNeverDecreases ==
    [][\A m \in Models :
          \/ usage'[m].requests_today >= usage[m].requests_today
          \/ ResetDue(m) /\ usage'[m].requests_today = 0]_vars

\* tokens of the records of model m whose position is in S
RECURSIVE TokensAmong(_, _, _)
TokensAmong(m, S, n) ==
    IF n = 0 THEN 0
    ELSE TokensAmong(m, S, n - 1)
            + (IF n \in S THEN usage[m].request_records[n].tokens ELSE 0)
\* the stored records of model m that are not more than 60 seconds old
NotOlderThanSixty(m) ==
    { i \in DOMAIN usage[m].request_records : usage[m].request_records[i].age <= 60 }
\* the stored records of model m that are less than 60 seconds old
YoungerThanSixty(m) ==
    { i \in DOMAIN usage[m].request_records : usage[m].request_records[i].age < 60 }
\* requests_this_minute and tokens_this_minute of model m count exactly the
\* records in Counted(m)
WindowCounts(m, Counted(_)) ==
    /\ requests_this_minute(usage[m]) = Cardinality(Counted(m))
    /\ tokens_this_minute(usage[m])
          = TokensAmong(m, Counted(m), Len(usage[m].request_records))

C12_DailyResetIdempotent ==
    \A m \in Models :
        LET once  == reset_daily_counter_if_needed(usage, m)
            twice == reset_daily_counter_if_needed(once, m)
        IN  /\ twice = once
            /\ IF ResetDue(m)
               THEN /\ once[m].requests_today = 0
                    /\ once[m].last_day_reset = 0
                    /\ once[m].request_records = usage[m].request_records
                    /\ \A o \in Models \ {m} : once[o] = usage[o]
               ELSE once = usage

\* C12 witness: after a day rollover one model has been reset (its count is
\* 0 and no reset is due for it any more) while another, with requests
\* counted the day before, still awaits its reset
C12_Witness ==
    /\ days >= 1
    /\ \E m \in Models : ~ResetDue(m) /\ CountToday(m) = 0
    /\ \E m \in Models : ResetDue(m) /\ CountToday(m) > 0

\* C13: request_records never holds more than 20 records; after n
\* record_request calls for a model within 60 seconds it holds the last
\* min(n, 20) of them in the order of the calls, newest last: with n > 20
\* exactly the n - 20 oldest are gone.  (In SpecSerial the n-th call records
\* n tokens, and the model whose requests_today equals calls received all.)
C13_RecordSequenceBound ==
    \A m \in Models :
        LET records == usage[m].request_records
        IN  /\ Len(records) <= 20
            /\ (calls > 0 /\ CountToday(m) = calls) =>
                  /\ Len(records) = (IF calls > 20 THEN 20 ELSE calls)
                  /\ \A i \in DOMAIN records :
                        records[i].tokens = calls - Len(records) + i

\* C13 witness: 25 calls left 20 records, the 6th call's first and the 25th
\* call's last
C13_Witness ==
    /\ calls = 25
    /\ \E m \in Models :
          /\ CountToday(m) = 25
          /\ Len(usage[m].request_records) = 20
          /\ usage[m].request_records[1].tokens = 6
          /\ usage[m].request_records[20].tokens = 25

\* handler h completes a successful request: record_request(model_to_use, tokens)
AnyInvokeOK(h) == \E tokens \in TokenChoices : InvokeOK(h, tokens, calls + 1)

\* the step counted one request of model m and appended one record: on the
\* same day requests_today is one more, the records still in the window are
\* kept in order before the new one (up to 20 in all), nothing else changes
OneRequestRecorded(m) ==
    LET old  == usage[m].request_records
        new  == usage'[m].request_records
        kept == Cardinality(YoungerThanSixty(m))
    IN  /\ usage'[m].requests_today = (IF ResetDue(m) THEN 0 ELSE CountToday(m)) + 1
        /\ Len(new) = (IF kept + 1 > 20 THEN 20 ELSE kept + 1)
        /\ new[Len(new)].age = 0
        /\ \A i \in 1..(Len(new) - 1) :
              \E j \in YoungerThanSixty(m) :
                  /\ new[i] = old[j]
                  /\ Cardinality({ k \in YoungerThanSixty(m) : k > j }) = Len(new) - 1 - i
        /\ \A o \in Models \ {m} : usage'[o] = usage[o]

\* C14: every record_request of a handler takes effect whole, whatever the
\* other handlers are doing: requests_today of the model grows by exactly one
\* and exactly one record is appended, so that N calls add N.
C14_RecordRequestAtomic ==
    [][\A h \in DOMAIN handler :
          AnyInvokeOK(h) => OneRequestRecorded(handler[h].model_to_use)]_vars

\* C14 witness: two requests of the same model were in progress together and
\* both have been recorded: the count is 2 and both records are stored
C14_Witness ==
    /\ calls = 2
    /\ last.op = "record"
    /\ CountToday(last.about) = 2
    /\ Len(usage[last.about].request_records) = 2
    /\ usage[last.about].request_records[1].age = 0
    /\ \A h \in DOMAIN handler : handler[h].pc = "idle"

\* C15: while a handler is inside the sleep of check_and_wait_if_needed,
\* the other handlers go on: a request can start its own
\* check_and_wait_if_needed, a request in progress can complete its
\* record_request, and get_usage_stats can be served.
C15_SleepSuspendsOnlyItsRequest ==
    (\E s \in DOMAIN handler : handler[s].pc = "sleeping") =>
        /\ ENABLED GetUsageStats
        /\ \A g \in DOMAIN handler :
              handler[g].pc = "invoke" =>
                  \A tokens \in TokenChoices : ENABLED InvokeOK(g, tokens, calls + 1)
        /\ (\E g \in DOMAIN handler : handler[g].pc = "idle") =>
              \E g \in DOMAIN handler :
                  /\ handler[g].pc = "idle"
                  /\ \A estimated_tokens \in EstChoices :
                        ENABLED CheckStart(g, estimated_tokens)

\* C15 witness: one handler has just gone to sleep while the request of
\* another is in progress
C15_Witness ==
    \E s, g \in DOMAIN handler :
        /\ handler[s].pc = "sleeping" /\ handler[s].slept = 0
        /\ handler[g].pc = "invoke"

\* the request of handler h fails with an error that is passed to
\* record_request_with_error_handling and matches no quota indicator
AnyOtherError(h) == InvokeOtherError(h, calls + 1)

\* C16: on an error that matches no quota indicator,
\* record_request_with_error_handling(model, tokens_used, ...) does what
\* record_request(model, tokens_used) does (one request counted, one record
\* of tokens_used appended), leaves current_model and the usage of every
\* other model unchanged, and returns (current_model, None).
C16_NonQuotaPath ==
    [][\A h \in DOMAIN handler :
          AnyOtherError(h) =>
              LET m == handler[h].model_to_use
              IN  /\ OneRequestRecorded(m)
                  /\ usage'[m].request_records[Len(usage'[m].request_records)].tokens
                        = handler[h].estimated_tokens
                  /\ current_model' = current_model
                  /\ last' = Returned("error", current_model, "none", m)]_vars

\* C16 witness: such an error was recorded for a model that is no longer the
\* current one, and current_model stayed
C16_Witness ==
    /\ last.op = "error" /\ last.msg = "none"
    /\ last.about /= current_model
    /\ last.model = current_model
    /\ Len(usage[last.about].request_records) >= 1

\* the bridge outcomes in which history retrieval returns nothing or fails,
\* or summarization fails or times out
FailedBridge == BridgeOutcomes \ {"summarized"}

\* what the quota branch does for the request of handler h before the bridge
BeforeBridge(h) ==
    QuotaErrorOutcome(usage, current_model, handler[h].model_to_use)

\* C17: on an error-driven switch whose Conversation-Context Bridge fails
\* (no history, history retrieval fails, summarization fails or times out),
\* record_request_with_error_handling returns normally, current_model is the
\* new model the switch chose, and the call returns (new model, switched
\* message without the summary note).
C17_BridgeBestEffort ==
    [][\A h \in DOMAIN handler :
          (QuotaErrorAmong(h, calls + 1, FailedBridge, "written")
             /\ BeforeBridge(h).msg = "quota_switched")
          => (/\ current_model' = BeforeBridge(h).model
              /\ current_model' /= current_model
              /\ usage' = BeforeBridge(h).usage
              /\ handler'[h] = IdleHandler
              /\ last' = Returned("error", current_model', "quota_switched",
                                  current_model))]_vars

\* C17 witness: a quota error switched the model and its message carries no
\* summary note
C17_Witness ==
    /\ last.op = "error" /\ last.msg = "quota_switched"
    /\ last.summary_info = ""
    /\ last.model = current_model /\ last.about /= current_model

\* a public operation of the rate limiter returns in this step
PublicOperationReturns ==
    \/ GetUsageStats
    \/ \E h \in DOMAIN handler :
          \/ AnyCheckStart(h) /\ handler'[h].pc /= "sleeping"
          \/ CheckWake(h)
          \/ AnyInvokeOK(h)
          \/ AnyQuotaError(h)
          \/ AnyOtherError(h)

\* C18: whenever a public operation that changed the in-memory ledger
\* returns, the usage file holds, for every model, the requests_today,
\* last_day_reset and (last 20) request records of the in-memory ledger.
C18_PersistedAfterEveryMutation ==
    [][(PublicOperationReturns /\ usage' /= usage)
          => file' = SavedData(usage')]_vars

\* the records of a ledger entry that are younger than 60 seconds, in order
YoungRecords(u) == SelectSeq(u.request_records, LAMBDA record : record.age < 60)

\* C19: constructing a fresh controller from the saved file yields, for
\* every model, the requests_today of the ledger (0 with last_day_reset = load
\* time when last_day_reset is on an earlier calendar date) and its request
\* records with the same timestamps and tokens in the same order; only
\* records that are 60 seconds old or older at load may be missing.
C19_PersistenceRoundTrip ==
    [][Restart =>
          \A m \in Models :
              /\ usage'[m].requests_today
                    = IF ResetDue(m) THEN 0 ELSE usage[m].requests_today
              /\ usage'[m].last_day_reset = Now
              /\ YoungRecords(usage'[m]) = YoungRecords(usage[m])]_vars

\* the write outcomes in which writing the usage file fails
FailedWrite == DiskOutcomes \ {"written"}

\* C20: when reading or writing the usage file fails, construction,
\* record_request and record_request_with_error_handling still complete, the
\* in-memory update of the call is the one of a call whose write succeeds,
\* and every configured model has a usage entry.
C20_PersistenceFailureNonFatal ==
    [][/\ \A disk \in FailedWrite :
            InvokeOKAt("h1", BurstTokens, calls + 1, FALSE, disk)
            => (/\ usage' = record_request(usage, handler["h1"].model_to_use, BurstTokens)
                /\ last' = Returned("record", NoModel, "", handler["h1"].model_to_use)
                /\ handler'["h1"] = IdleHandler
                /\ DOMAIN usage' = Models)
       /\ \A bridge \in BridgeOutcomes : \A disk \in FailedWrite :
            QuotaErrorAt("h1", calls + 1, bridge, disk)
            => LET o == QuotaErrorOutcome(usage, current_model,
                                          handler["h1"].model_to_use)
               IN  /\ usage' = o.usage
                   /\ current_model' = o.model
                   /\ last'.op = "error" /\ last'.model = o.model /\ last'.msg = o.msg
                   /\ handler'["h1"] = IdleHandler
                   /\ DOMAIN usage' = Models
       /\ \A read_ok \in BOOLEAN : \A disk \in DiskOutcomes :
            (RestartAt(read_ok, disk) /\ (~read_ok \/ disk \in FailedWrite))
            => (/\ usage' = IF read_ok THEN LoadUsageData(file)
                                       ELSE [m \in Models |-> ModelUsage]
                /\ current_model' = InitialModel
                /\ DOMAIN usage' = Models)]_vars

\* C20 witness: a quota error whose write failed switched the model and left
\* an unreadable file, with the failing model at its cap in memory
C20_Witness ==
    /\ file = Unreadable
    /\ last.op = "error" /\ last.msg = "quota_switched"
    /\ current_model = last.model /\ current_model /= last.about
    /\ usage[last.about].requests_today = Cap(last.about)

\* the encodings of an unparseable or wrongly typed timestamp
CorruptEncodings == {"text", "null", "bool"}

\* the timestamp that C21 lets a stored value load to: its instant for an
\* epoch number or ISO-8601 string, the load time for a corrupt value
LoadsTo(timestamp_value) ==
    IF timestamp_value.enc \in CorruptEncodings THEN Now ELSE timestamp_value.at

\* every timestamp of the file is an epoch number in range, an ISO-8601
\* string, or an unparseable or wrongly typed value
OnlyKnownEncodings ==
    \A m \in Models :
        /\ file.data[m].last_day_reset.enc \in {"iso", "epoch"} \cup CorruptEncodings
        /\ \A i \in DOMAIN file.data[m].request_records :
              file.data[m].request_records[i].timestamp.enc
                  \in {"iso", "epoch"} \cup CorruptEncodings

\* C21: at load an epoch number and an ISO-8601 string for the same instant
\* give the same timestamp, and an unparseable or wrongly typed timestamp is
\* replaced by the load time: such a record is inside the 60-second window
\* and such a last_day_reset causes no daily reset.
C21_LoadTolerantOfEncodings ==
    [][(Restart /\ file.exists /\ file.readable /\ OnlyKnownEncodings) =>
          \A m \in Models :
              LET d == file.data[m]
                  day == LoadsTo(d.last_day_reset)
                  expected == [i \in DOMAIN d.request_records |->
                                  [age    |-> LoadsTo(d.request_records[i].timestamp),
                                   tokens |-> d.request_records[i].tokens]]
              IN  /\ usage'[m].requests_today
                        = IF day > 0 THEN 0 ELSE d.requests_today
                  /\ usage'[m].last_day_reset = Now
                  /\ usage'[m].request_records
                        = SelectSeq(expected, LAMBDA record : record.age < 60)]_vars

\* C22: estimate_tokens(text) is max(floor(len(text) / 4), 100): 100 for the
\* empty text and every text shorter than 404 characters, a quarter of the
\* length rounded down from there on, 250 for a text of 1000 characters.
C22_EstimateTokens ==
    [][\A text_len \in TextLengths :
          ChatStart("h1", text_len) =>
              /\ handler'["h1"].estimated_tokens
                    = IF text_len < 404 THEN 100
                      ELSE CHOOSE q \in 0..text_len :
                              4 * q <= text_len /\ text_len < 4 * (q + 1)
              /\ text_len = 0 => handler'["h1"].estimated_tokens = 100
              /\ text_len = 1000 => handler'["h1"].estimated_tokens = 250]_vars

\* C22 witness: the request of a message of 1000 characters was estimated
\* at 250 tokens
C22_Witness ==
    /\ handler["h1"].pc = "invoke"
    /\ handler["h1"].estimated_tokens = 250

\* C23: every step of check_and_wait_if_needed or
\* record_request_with_error_handling that changes current_model from X to Y
\* leaves X with requests_today >= requests_per_day; a quota error reported
\* for a model that is no longer current does not move current_model off a
\* model that still has quota.
C23_SwitchOnlyAwayFromExhausted ==
    [][current_model' /= current_model =>
          usage'[current_model].requests_today >= Cap(current_model)]_vars

\* the assistant node of handler h calls its LLM, the call succeeds and the
\* handler records the request
AssistantServes(h) ==
    /\ handler[h].pc = "invoke"
    /\ handler'[h].pc = "idle"
    /\ last'.op = "record"

\* C24: usage is attributed to the model that served the request: the model
\* a handler passes to record_request (the one check_and_wait_if_needed
\* returned to it) is the model its assistant node built the LLM with, also
\* when another request changed current_model after the check.
C24_UsageAttributedToServingModel ==
    [][\A h \in DOMAIN handler :
          AssistantServes(h) =>
              /\ last'.about = handler[h].model_to_use
              /\ handler[h].model_to_use = get_current_gemini_model]_vars

\* the messages of the quota branch of record_request_with_error_handling
QuotaMessages == {"quota_switched", "ALL_MODELS_EXHAUSTED", "TEMPORARY_API_ISSUE"}

\* C25: no request is counted twice: whichever way the request of a handler
\* ends, also a stream that emitted tokens and then failed with an error
\* routed to record_request_with_error_handling, requests_today of its model
\* is incremented at most once (from today's count, or from the cap a quota
\* error forced) and at most one record is appended.
C25_NoDoubleCounting ==
    [][\A h \in DOMAIN handler :
          (handler[h].pc = "invoke" /\ handler'[h].pc = "idle") =>
              LET m    == handler[h].model_to_use
                  base == IF last'.msg \in QuotaMessages THEN ForcedCount(m)
                          ELSE IF ResetDue(m) THEN 0 ELSE CountToday(m)
              IN  /\ usage'[m].requests_today <= base + 1
                  /\ Len(usage'[m].request_records)
                        <= Cardinality(YoungerThanSixty(m)) + 1]_vars

\* what the caller of the call that returned last can read afterwards: the
\* members of the returned tuple (the model and the message with its note)
\* and the controller attribute that names a model
AvailableToCaller == {last.model, last.msg, last.summary_info, current_model}

\* C26: context is carried across a forced switch: when
\* record_request_with_error_handling switched and the bridge produced a
\* non-empty summary, the summary text itself is available to the caller
\* afterwards, in the returned tuple or in the controller state.
C26_SummaryCarriedAcrossSwitch ==
    (/\ last.op = "error"
     /\ last.msg = "quota_switched"
     /\ last.summary_info = summary_info("summarized"))
        => conversation_summary("summarized") \in AvailableToCaller

\* C27: on the delay path check_and_wait_if_needed returns the model whose
\* limits it evaluated before the sleep, the one its delay message is about,
\* also when another handler changed current_model during the sleep.
C27_DelayReturnsEvaluatedModel ==
    (last.op = "check" /\ last.msg = "delay") => last.model = last.about

\* the first model after the initial one that has quota left today
FirstLaterWithQuota ==
    model_priority[Least({ i \in DOMAIN model_priority :
                             /\ i > PriorityIndex(InitialModel)
                             /\ HasQuotaAfterReset(model_priority[i]) })]

\* C28: concurrent proactive switches do not cascade.  While the initial
\* model A is at its daily cap and B is the first later model with quota,
\* the handlers that call check_and_wait_if_needed together make one switch
\* in all: the only step that changes current_model or returns the
\* 'switched' message leaves A for B and returns (B, 'switched') to one
\* handler; every handler that got past its check holds B, and
\* current_model is B and never a model after B.
C28_NoCascadingSwitches ==
    [][/\ (current_model' /= current_model
              \/ (last' /= last /\ last'.msg = "switched"))
          => /\ current_model = InitialModel
             /\ current_model' = FirstLaterWithQuota
             /\ last' = Returned("check", current_model', "switched", current_model)
       /\ \A h \in DOMAIN handler :
             handler'[h].pc /= "idle"
                => /\ current_model' = FirstLaterWithQuota
                   /\ handler'[h].model_to_use = current_model']_vars

\* C28 witness: after the switch every handler has called
\* check_and_wait_if_needed and holds the model switched to
C28_Witness ==
    /\ current_model /= InitialModel
    /\ current_model = FirstLaterWithQuota
    /\ \A h \in DOMAIN handler :
          handler[h].pc \in {"invoke", "sleeping"} /\ handler[h].model_to_use = current_model
    /\ \E h \in DOMAIN handler : handler[h].pc = "sleeping"

\* C29: the position of current_model in model_priority never decreases
\* while the controller instance lives: no operation, a daily-counter reset
\* of an earlier model included, switches back to an earlier model.
C29_PriorityPositionMonotonic ==
    [][PriorityIndex(current_model') >= PriorityIndex(current_model)]_vars

\* C29 witness: the day changed after a switch away from the first model
\* and the daily counter of the first model has been reset to 0, while a
\* later model is current
C29_Witness ==
    /\ PriorityIndex(current_model) > 1
    /\ days = 1
    /\ CountToday(model_priority[1]) = 0
    /\ ~ResetDue(model_priority[1])

\* C30: the snapshot get_usage_stats returns is self-consistent: exactly one
\* model has is_current_model true and it is the top-level current_model,
\* and every model's daily_limit_exceeded is true exactly when the
\* requests-today count reported for it has reached requests_per_day, also
\* right after a day rollover.
C30_StatsSnapshotConsistent ==
    LET stats == StatsResponse(usage, current_model)
    IN  /\ { m \in Models : stats.models[m].is_current_model } = {stats.current_model}
        /\ \A m \in Models :
              stats.models[m].daily_limit_exceeded
                 <=> stats.models[m].requests_per_day >= Cap(m)

====
